---- MODULE Spec2Model ----
(***************************************************************************)
(* Model of src/atom.h: Atom<T> (an observable cell guarded by one         *)
(* std::shared_mutex) and Subscription<T> (the move-only handle whose      *)
(* release erases the observer from the cell's listener map).              *)
(*                                                                         *)
(* T is int (as in src/tests.cpp), so std::equality_comparable<T> holds    *)
(* and the skip-on-equal branch is compiled in.  A callback is identified  *)
(* with the id it is registered under.  Each thread carries a stack of     *)
(* notify() frames, so that an observer may call back into the cell.       *)
(***************************************************************************)
EXTENDS Integers, Sequences, FiniteSets, TLC

\* ---- bounds of the model
NThreads == 2
MaxSubs == 2
MaxIds == 2
MaxVal == 1
MaxDispatch == 2

Threads == 1..NThreads
Holders == 1..MaxSubs
Ids == 0..(MaxIds - 1)
Values == 0..MaxVal
Updaters == {"inc", "same", "fail"}
\* no observer: an id the model never allocates
NoId == MaxIds

VARIABLES
    alive,       \* some shared_ptr<Atom> still exists
    value_,      \* Atom::value_
    listeners_,  \* Atom::listeners_ (its key set)
    next_id_,    \* Atom::next_id_
    on_error_,   \* Atom::on_error_ holds a callable
    mutex_,      \* exclusive owner of Atom::mutex_ (0: free)
    subs,        \* the Subscription objects, one per holder
    op,          \* per thread: the member function it is executing
    stack,       \* per thread: its active notify() frames, innermost last
    exc,         \* per thread: an exception is propagating to the caller
    released,    \* history: ids whose release has completed
    last         \* history: the value of the last accepted write

vars == <<alive, value_, listeners_, next_id_, on_error_, mutex_, subs, op,
          stack, exc, released, last>>

\* the cell's data members, and the history of its value
atomVars == <<value_, listeners_, next_id_, last>>

\* ---- Subscription objects --------------------------------------------
\* live: the object exists; owner: owner_ refers to the atom (not empty);
\* id: id_.  History: obs, the observer the object answers for; moved, the
\* object was the source of a move and has not been assigned to since.
NoSub == [live |-> FALSE, owner |-> FALSE, id |-> 0, obs |-> NoId, moved |-> FALSE]

\* Subscription<T>(this->shared_from_this(), id)
NewSubscription(id) ==
    [live |-> TRUE, owner |-> TRUE, id |-> id, obs |-> id, moved |-> FALSE]

\* Subscription<int>(std::weak_ptr<Atom<int>>{}, 0)
InertSubscription ==
    [live |-> TRUE, owner |-> FALSE, id |-> 0, obs |-> NoId, moved |-> FALSE]

\* a weak_ptr that never locks (as one taken from an atom that no
\* shared_ptr owns)
LockOwnerNever(s) == FALSE

\* a weak_ptr that still locks once the atom is gone
LockOwnerExpired(s) == s.owner

\* owner_.lock() yields a non-null shared_ptr
LockOwner(s) == s.owner /\ alive

\* a release that leaves the map as it is
EraseNothing(ls, id) == ls

\* listeners_.erase(id_)
Erase(ls, id) == ls \ {id}

\* a move that copies owner_ instead of moving it
MovedFromKeepsOwner(s) == [s EXCEPT !.id = 0, !.obs = NoId, !.moved = TRUE]

\* what a move leaves of its source: std::move(other.owner_) empties the
\* weak_ptr, and other.id_ = 0
MovedFrom(s) == [s EXCEPT !.owner = FALSE, !.id = 0, !.obs = NoId, !.moved = TRUE]

\* what the target of a move holds afterwards
MovedTo(s) ==
    [live |-> TRUE, owner |-> s.owner, id |-> s.id, obs |-> s.obs, moved |-> FALSE]

\* unsubscribe() without owner_.reset()
ResetKeepsOwner(s) == [s EXCEPT !.obs = NoId]

\* what unsubscribe() leaves of the object: owner_.reset(), id_ as it was
Reset(s) == [s EXCEPT !.owner = FALSE, !.obs = NoId]

\* ---- threads ----------------------------------------------------------
Idle == [kind |-> "none", h |-> 0, src |-> 0, arg |-> 0, fn |-> ""]

Call(kind, h, src, arg, fn) ==
    [kind |-> kind, h |-> h, src |-> src, arg |-> arg, fn |-> fn]

Top(t) == stack[t][Len(stack[t])]

\* a notify that is not left
PopKeepsFrame(s) == s

Pop(s) == SubSeq(s, 1, Len(s) - 1)

SetTop(t, f) == [stack EXCEPT ![t] = [@ EXCEPT ![Len(@)] = f]]

\* thread t is in client code or inside an observer, free to call the API
CanCall(t) ==
    /\ op[t] = Idle
    /\ ~exc[t]
    /\ IF stack[t] = <<>> THEN TRUE ELSE Top(t).status = "running"

\* some member function of holder h is executing
Busy(h) == \E t \in Threads : op[t].kind # "none" /\ h \in {op[t].h, op[t].src}

\* ---- Atom::mutex_ ------------------------------------------------------
\* the threads inside get(), each holding a std::shared_lock
Readers == {u \in Threads : op[u].kind = "get"}

\* std::unique_lock lock(mutex_) does not block
CanLock == mutex_ = 0 /\ Readers = {}

\* std::shared_lock lock(mutex_) does not block
CanLockShared == mutex_ = 0

\* ---- Atom::set / Atom::update -----------------------------------------
\* a write that never compares
SkipWriteNever(new, cur) == FALSE

\* if (value == value_) return;
SkipWrite(new, cur) == new = cur

\* a snapshot of a registry that keeps released observers
SnapshotKeepsReleased(ls) == ls \cup released

\* snapshot = listeners_;
Snapshot(ls) == ls

\* an update whose result is dropped
ApplyLost(fn, v) == v

\* the updater applied to value_
Apply(fn, v) == IF fn = "inc" THEN (v + 1) % (MaxVal + 1) ELSE v

\* the frame of notify(snapshot, snapshotValue); reg, stored and cnt are
\* history
NewFrame(ls, v) ==
    [reg |-> ls, pending |-> Snapshot(ls), val |-> v, stored |-> v,
     cur |-> NoId, arg |-> 0, status |-> "iter",
     cnt |-> [i \in Ids |-> 0]]

\* a dispatch that hands out value_ itself instead of the copy
CallbackArgCurrent(f) == value_

\* cb(value)
CallbackArg(f) == f.val

Init ==
    /\ alive = TRUE
    /\ value_ = 0
    /\ listeners_ = {}
    /\ next_id_ = 0
    /\ on_error_ \in BOOLEAN
    /\ mutex_ = 0
    /\ subs = [h \in Holders |-> NoSub]
    /\ op = [t \in Threads |-> Idle]
    /\ stack = [t \in Threads |-> <<>>]
    /\ exc = [t \in Threads |-> FALSE]
    /\ released = {}
    /\ last = value_

\* the notify() frames of all threads
RECURSIVE Frames(_)
Frames(T) ==
    IF T = {} THEN 0
    ELSE LET t == CHOOSE x \in T : TRUE IN Len(stack[t]) + Frames(T \ {t})

\* ---- Atom::get ---------------------------------------------------------
\* get(): std::shared_lock lock(mutex_)
GetCall(t) ==
    /\ CanCall(t)
    /\ alive
    /\ CanLockShared
    /\ op' = [op EXCEPT ![t] = Call("get", 0, 0, 0, "")]
    /\ UNCHANGED <<alive, atomVars, on_error_, mutex_, subs, stack, exc, released>>

\* a read that yields the value the cell was constructed with
GetResultInitial(t) == 0

\* return value_;
GetResult(t) == value_

\* get() returns, and the shared lock is released
GetLocked(t) ==
    /\ op[t].kind = "get"
    /\ op' = [op EXCEPT ![t] = Idle]
    /\ UNCHANGED <<alive, atomVars, on_error_, mutex_, subs, stack, exc, released>>

\* set(v): std::unique_lock lock(mutex_)
SetCall(t, v) ==
    /\ CanCall(t)
    /\ alive
    /\ Frames(Threads) < MaxDispatch
    /\ CanLock
    /\ mutex_' = t
    /\ op' = [op EXCEPT ![t] = Call("set", 0, 0, v, "")]
    /\ UNCHANGED <<alive, atomVars, on_error_, subs, stack, exc, released>>

\* update(fn): std::unique_lock lock(mutex_)
UpdateCall(t, fn) ==
    /\ CanCall(t)
    /\ alive
    /\ Frames(Threads) < MaxDispatch
    /\ CanLock
    /\ mutex_' = t
    /\ op' = [op EXCEPT ![t] = Call("update", 0, 0, 0, fn)]
    /\ UNCHANGED <<alive, atomVars, on_error_, subs, stack, exc, released>>

\* a lock whose scope takes in the call of notify
UnlockAfterNotify(t) == t

\* a lock released by hand at the end of the block, which a throwing
\* updater skips
UnlockSkippedByThrow(t) == IF op[t].fn = "fail" THEN t ELSE 0

\* the closing brace of the locked block, before notify(snapshot,
\* snapshotValue), the return inside it, or the updater's exception leaving
\* it: the unique_lock is released
Unlock(t) == 0

\* the locked block of set(), to the release of the lock
SetLocked(t) ==
    /\ op[t].kind = "set"
    /\ mutex_ = t
    /\ mutex_' = Unlock(t)
    /\ op' = [op EXCEPT ![t] = Idle]
    /\ IF SkipWrite(op[t].arg, value_)
       THEN UNCHANGED <<value_, last, stack>>
       ELSE /\ value_' = op[t].arg
            /\ last' = op[t].arg
            /\ stack' = [stack EXCEPT ![t] =
                            Append(@, NewFrame(listeners_, value_'))]
    /\ UNCHANGED <<alive, listeners_, next_id_, on_error_, subs, exc, released>>

\* the locked block of update(), to the release of the lock
UpdateLocked(t) ==
    /\ op[t].kind = "update"
    /\ mutex_ = t
    /\ mutex_' = Unlock(t)
    /\ op' = [op EXCEPT ![t] = Idle]
    /\ IF op[t].fn = "fail"
       THEN /\ exc' = [exc EXCEPT ![t] = TRUE]
            /\ UNCHANGED <<value_, last, stack>>
       ELSE /\ UNCHANGED exc
            /\ IF SkipWrite(Apply(op[t].fn, value_), value_)
               THEN UNCHANGED <<value_, last, stack>>
               ELSE /\ value_' = Apply(op[t].fn, value_)
                    /\ last' = Apply(op[t].fn, value_)
                    /\ stack' = [stack EXCEPT ![t] =
                                    Append(@, NewFrame(listeners_, value_'))]
    /\ UNCHANGED <<alive, listeners_, next_id_, on_error_, subs, released>>

\* ---- Atom::notify ------------------------------------------------------
\* the for loop takes the next entry of the snapshot and calls cb(value)
NotifyNext(t) ==
    /\ op[t] = Idle
    /\ stack[t] # <<>>
    /\ Top(t).status = "iter"
    /\ \E id \in Top(t).pending :
          stack' = SetTop(t, [Top(t) EXCEPT !.pending = @ \ {id},
                                            !.cur = id,
                                            !.arg = CallbackArg(Top(t)),
                                            !.status = "running",
                                            !.cnt[id] = @ + 1])
    /\ UNCHANGED <<alive, atomVars, on_error_, mutex_, subs, op, exc, released>>

\* the loop is over: notify returns, and so does set/update
NotifyReturn(t) ==
    /\ op[t] = Idle
    /\ stack[t] # <<>>
    /\ Top(t).status = "iter"
    /\ Top(t).pending = {}
    /\ stack' = [stack EXCEPT ![t] = Pop(@)]
    /\ UNCHANGED <<alive, atomVars, on_error_, mutex_, subs, op, exc, released>>

\* cb(value) returns normally
ObserverReturn(t) ==
    /\ op[t] = Idle
    /\ ~exc[t]
    /\ stack[t] # <<>>
    /\ Top(t).status = "running"
    /\ stack' = SetTop(t, [Top(t) EXCEPT !.cur = NoId, !.status = "iter"])
    /\ UNCHANGED <<alive, atomVars, on_error_, mutex_, subs, op, exc, released>>

\* a catch block that drops the exception
CaughtSwallowed(f, sink) == [f EXCEPT !.cur = NoId, !.status = "iter"]

\* the state of the frame once catch (...) has taken an observer's exception:
\* on_error_(std::current_exception()) is called if on_error_ is set
Caught(f, sink) ==
    IF sink
    THEN [f EXCEPT !.status = "sink"]
    ELSE [f EXCEPT !.cur = NoId, !.status = "iter"]

\* cb(value) throws (its own exception, or one of a call it made)
ObserverThrow(t) ==
    /\ op[t] = Idle
    /\ stack[t] # <<>>
    /\ Top(t).status = "running"
    /\ stack' = SetTop(t, Caught(Top(t), on_error_))
    /\ exc' = [exc EXCEPT ![t] = FALSE]
    /\ UNCHANGED <<alive, atomVars, on_error_, mutex_, subs, op, released>>

\* on_error_ returns normally; the loop goes on
SinkReturn(t) ==
    /\ stack[t] # <<>>
    /\ Top(t).status = "sink"
    /\ stack' = SetTop(t, [Top(t) EXCEPT !.cur = NoId, !.status = "iter"])
    /\ UNCHANGED <<alive, atomVars, on_error_, mutex_, subs, op, exc, released>>

\* on_error_ throws inside the catch block: the exception leaves notify
\* and set/update
SinkThrow(t) ==
    /\ stack[t] # <<>>
    /\ Top(t).status = "sink"
    /\ stack' = [stack EXCEPT ![t] = Pop(@)]
    /\ exc' = [exc EXCEPT ![t] = TRUE]
    /\ UNCHANGED <<alive, atomVars, on_error_, mutex_, subs, op, released>>

\* the caller (client code, or the observer that made the call) catches
CatchExc(t) ==
    /\ exc[t]
    /\ exc' = [exc EXCEPT ![t] = FALSE]
    /\ UNCHANGED <<alive, atomVars, on_error_, mutex_, subs, op, stack, released>>

\* ---- Atom::subscribe --------------------------------------------------
\* auto id = next_id_++;
NewId(n) == n

SubscribeCall(t, h) ==
    /\ CanCall(t)
    /\ alive
    /\ ~subs[h].live
    /\ ~Busy(h)
    /\ next_id_ < MaxIds
    /\ CanLock
    /\ mutex_' = t
    /\ op' = [op EXCEPT ![t] = Call("subscribe", h, 0, 0, "")]
    /\ UNCHANGED <<alive, atomVars, on_error_, subs, stack, exc, released>>

SubscribeLocked(t) ==
    /\ op[t].kind = "subscribe"
    /\ mutex_ = t
    /\ mutex_' = 0
    /\ op' = [op EXCEPT ![t] = Idle]
    /\ next_id_' = next_id_ + 1
    /\ listeners_' = listeners_ \cup {NewId(next_id_)}
    /\ subs' = [subs EXCEPT ![op[t].h] = NewSubscription(NewId(next_id_))]
    /\ UNCHANGED <<alive, value_, last, on_error_, stack, exc, released>>

\* ---- Subscription -----------------------------------------------------
\* Subscription<int>(std::weak_ptr<Atom<int>>{}, 0)
Placeholder(t, h) ==
    /\ CanCall(t)
    /\ ~subs[h].live
    /\ ~Busy(h)
    /\ subs' = [subs EXCEPT ![h] = InertSubscription]
    /\ UNCHANGED <<alive, atomVars, on_error_, mutex_, op, stack, exc, released>>

\* Subscription(Subscription&& other)
MoveConstruct(t, h, src) ==
    /\ CanCall(t)
    /\ h # src
    /\ ~subs[h].live
    /\ subs[src].live
    /\ ~Busy(h)
    /\ ~Busy(src)
    /\ subs' = [subs EXCEPT ![h] = MovedTo(subs[src]),
                            ![src] = MovedFrom(subs[src])]
    /\ UNCHANGED <<alive, atomVars, on_error_, mutex_, op, stack, exc, released>>

\* unsubscribe(): owner_.lock(), then the lock on mutex_, or straight to
\* owner_.reset() when there is no atom to lock
UnsubscribeCall(t, h) ==
    /\ CanCall(t)
    /\ subs[h].live
    /\ ~Busy(h)
    /\ IF LockOwner(subs[h])
       THEN /\ CanLock
            /\ mutex_' = t
            /\ op' = [op EXCEPT ![t] = Call("unsubscribe", h, 0, 0, "")]
            /\ UNCHANGED subs
       ELSE /\ subs' = [subs EXCEPT ![h] = Reset(@)]
            /\ UNCHANGED <<mutex_, op>>
    /\ UNCHANGED <<alive, atomVars, on_error_, stack, exc, released>>

\* the history of completed releases
Released(s) == IF s.obs = NoId THEN released ELSE released \cup {s.obs}

UnsubscribeLocked(t) ==
    /\ op[t].kind = "unsubscribe"
    /\ mutex_ = t
    /\ mutex_' = 0
    /\ op' = [op EXCEPT ![t] = Idle]
    /\ listeners_' = Erase(listeners_, subs[op[t].h].id)
    /\ released' = Released(subs[op[t].h])
    /\ subs' = [subs EXCEPT ![op[t].h] = Reset(@)]
    /\ UNCHANGED <<alive, value_, last, next_id_, on_error_, stack, exc>>

\* ~Subscription()
DtorCall(t, h) ==
    /\ CanCall(t)
    /\ subs[h].live
    /\ ~Busy(h)
    /\ IF LockOwner(subs[h])
       THEN /\ CanLock
            /\ mutex_' = t
            /\ op' = [op EXCEPT ![t] = Call("dtor", h, 0, 0, "")]
            /\ UNCHANGED subs
       ELSE /\ subs' = [subs EXCEPT ![h] = NoSub]
            /\ UNCHANGED <<mutex_, op>>
    /\ UNCHANGED <<alive, atomVars, on_error_, stack, exc, released>>

DtorLocked(t) ==
    /\ op[t].kind = "dtor"
    /\ mutex_ = t
    /\ mutex_' = 0
    /\ op' = [op EXCEPT ![t] = Idle]
    /\ listeners_' = Erase(listeners_, subs[op[t].h].id)
    /\ released' = Released(subs[op[t].h])
    /\ subs' = [subs EXCEPT ![op[t].h] = NoSub]
    /\ UNCHANGED <<alive, value_, last, next_id_, on_error_, stack, exc>>

\* operator=(Subscription&& other): nothing when this == &other; else
\* owner_.lock() and the lock on mutex_, or straight to the steal
AssignCall(t, h, src) ==
    /\ CanCall(t)
    /\ subs[h].live
    /\ subs[src].live
    /\ ~Busy(h)
    /\ ~Busy(src)
    /\ IF h = src
       THEN UNCHANGED <<subs, mutex_, op>>
       ELSE IF LockOwner(subs[h])
            THEN /\ CanLock
                 /\ mutex_' = t
                 /\ op' = [op EXCEPT ![t] = Call("assign", h, src, 0, "")]
                 /\ UNCHANGED subs
            ELSE /\ subs' = [subs EXCEPT ![h] = MovedTo(subs[src]),
                                         ![src] = MovedFrom(subs[src])]
                 /\ UNCHANGED <<mutex_, op>>
    /\ UNCHANGED <<alive, atomVars, on_error_, stack, exc, released>>

\* an assignment that forgets the old observer
AssignEraseNothing(ls, id) == ls

\* the old observer erased under the lock, then the steal
AssignErase(ls, id) == Erase(ls, id)

AssignLocked(t) ==
    /\ op[t].kind = "assign"
    /\ mutex_ = t
    /\ mutex_' = 0
    /\ op' = [op EXCEPT ![t] = Idle]
    /\ listeners_' = AssignErase(listeners_, subs[op[t].h].id)
    /\ released' = Released(subs[op[t].h])
    /\ subs' = [subs EXCEPT ![op[t].h] = MovedTo(subs[op[t].src]),
                            ![op[t].src] = MovedFrom(subs[op[t].src])]
    /\ UNCHANGED <<alive, value_, last, next_id_, on_error_, stack, exc>>

\* the last shared_ptr<Atom> goes away: no member function is running
DestroyAtom ==
    /\ alive
    /\ \A t \in Threads : op[t] = Idle /\ stack[t] = <<>> /\ ~exc[t]
    /\ alive' = FALSE
    /\ listeners_' = {}
    /\ UNCHANGED <<value_, last, next_id_, on_error_, mutex_, subs, op, stack, exc, released>>

Next ==
    \/ \E t \in Threads : GetCall(t)
    \/ \E t \in Threads : GetLocked(t)
    \/ \E t \in Threads, v \in Values : SetCall(t, v)
    \/ \E t \in Threads, fn \in Updaters : UpdateCall(t, fn)
    \/ \E t \in Threads : SetLocked(t)
    \/ \E t \in Threads : UpdateLocked(t)
    \/ \E t \in Threads : NotifyNext(t)
    \/ \E t \in Threads : NotifyReturn(t)
    \/ \E t \in Threads : ObserverReturn(t)
    \/ \E t \in Threads : ObserverThrow(t)
    \/ \E t \in Threads : SinkReturn(t)
    \/ \E t \in Threads : SinkThrow(t)
    \/ \E t \in Threads : CatchExc(t)
    \/ \E t \in Threads, h \in Holders : SubscribeCall(t, h)
    \/ \E t \in Threads : SubscribeLocked(t)
    \/ \E t \in Threads, h \in Holders : Placeholder(t, h)
    \/ \E t \in Threads, h \in Holders, src \in Holders : MoveConstruct(t, h, src)
    \/ \E t \in Threads, h \in Holders : UnsubscribeCall(t, h)
    \/ \E t \in Threads : UnsubscribeLocked(t)
    \/ \E t \in Threads, h \in Holders : DtorCall(t, h)
    \/ \E t \in Threads : DtorLocked(t)
    \/ \E t \in Threads, h \in Holders, src \in Holders : AssignCall(t, h, src)
    \/ \E t \in Threads : AssignLocked(t)
    \/ DestroyAtom

Spec == Init /\ [][Next]_vars

\* ---- progress ---------------------------------------------------------
\* the threads of the concurrency tests: get, set, update, subscribe and
\* unsubscribe on one cell that outlives them, from client code and from
\* inside observers
ClientNext ==
    \/ \E t \in Threads : GetCall(t)
    \/ \E t \in Threads : GetLocked(t)
    \/ \E t \in Threads, v \in Values : SetCall(t, v)
    \/ \E t \in Threads, fn \in Updaters : UpdateCall(t, fn)
    \/ \E t \in Threads : SetLocked(t)
    \/ \E t \in Threads : UpdateLocked(t)
    \/ \E t \in Threads : NotifyNext(t)
    \/ \E t \in Threads : NotifyReturn(t)
    \/ \E t \in Threads : ObserverReturn(t)
    \/ \E t \in Threads : ObserverThrow(t)
    \/ \E t \in Threads : SinkReturn(t)
    \/ \E t \in Threads : SinkThrow(t)
    \/ \E t \in Threads : CatchExc(t)
    \/ \E t \in Threads, h \in Holders : SubscribeCall(t, h)
    \/ \E t \in Threads : SubscribeLocked(t)
    \/ \E t \in Threads, h \in Holders : UnsubscribeCall(t, h)
    \/ \E t \in Threads : UnsubscribeLocked(t)

\* a thread that holds the lock runs on to the end of its locked block
LockedStep(t) ==
    \/ GetLocked(t)
    \/ SetLocked(t)
    \/ UpdateLocked(t)
    \/ SubscribeLocked(t)
    \/ UnsubscribeLocked(t)

\* the observer of thread t's dispatch at depth d returns or throws
ObserverEnds(t, d) ==
    /\ Len(stack[t]) = d
    /\ ObserverReturn(t) \/ ObserverThrow(t)

\* threads keep running; observers, updaters and the error sink come back
Fairness ==
    \A t \in Threads :
        /\ WF_vars(LockedStep(t))
        /\ WF_vars(NotifyNext(t) \/ NotifyReturn(t))
        /\ WF_vars(SinkReturn(t) \/ SinkThrow(t))
        /\ \A d \in 1..MaxDispatch : SF_vars(ObserverEnds(t, d))

LiveSpec == Init /\ [][ClientNext]_vars /\ Fairness

\* ---- properties -------------------------------------------------------
\* thread t's innermost frame after the step
TopNext(t) == stack'[t][Len(stack'[t])]

\* the step ends a dispatch of thread t (notify is left)
Popped(t) == Len(stack'[t]) < Len(stack[t])

\* the step starts a dispatch of thread t (a value was stored)
Pushed(t) == Len(stack'[t]) > Len(stack[t])

\* the step starts an observer of thread t's innermost dispatch
Invoked(t) ==
    /\ stack[t] # <<>>
    /\ Len(stack'[t]) = Len(stack[t])
    /\ Top(t).status = "iter"
    /\ TopNext(t).status = "running"

Frame(t, i) == stack[t][i]

\* C1: when the dispatch of an accepted write ends, every observer that was
\* in the registry when the value was stored has been invoked exactly once
\* for it, and no other observer has.
C1_ExactlyOnce ==
    [][\A t \in Threads :
          Popped(t) =>
             \A id \in Ids : Top(t).cnt[id] = (IF id \in Top(t).reg THEN 1 ELSE 0)]_vars

\* C1, as far as the code goes: the same, for every dispatch that does not
\* end by the error sink throwing.
C1_ExactlyOnceUnlessSinkThrows ==
    [][\A t \in Threads :
          Popped(t) /\ ~SinkThrow(t) =>
             \A id \in Ids : Top(t).cnt[id] = (IF id \in Top(t).reg THEN 1 ELSE 0)]_vars

\* C2: a set(v) with v equal to the value held while the lock is held, or an
\* update(f) with f(value) equal to it, changes neither the value nor the
\* registry nor the id counter, starts no dispatch and raises nothing.
C2_SkipOnEqual ==
    [][\A t \in Threads :
          (\/ SetLocked(t) /\ op[t].arg = value_
           \/ UpdateLocked(t) /\ op[t].fn # "fail" /\ Apply(op[t].fn, value_) = value_)
          => /\ value_' = value_
             /\ listeners_' = listeners_
             /\ next_id_' = next_id_
             /\ stack' = stack
             /\ exc' = exc]_vars

\* a set(v) holds the lock with v equal to a value that an earlier write
\* stored, and an observer is registered
C2_Witness ==
    \E t \in Threads :
        /\ mutex_ = t
        /\ op[t].kind \in {"set", "update"}
        /\ op[t].fn # "fail"
        /\ (IF op[t].kind = "set" THEN op[t].arg ELSE Apply(op[t].fn, value_)) = value_
        /\ value_ # 0
        /\ listeners_ # {}

\* C3: an observer that is running (or whose failure is being handled) was
\* called with the value its write stored.
C3_ValueOfWrite ==
    \A t \in Threads : \A i \in 1..Len(stack[t]) :
        Frame(t, i).status \in {"running", "sink"} => Frame(t, i).arg = Frame(t, i).stored

\* an observer of thread t's only dispatch runs with the value t stored
\* while the cell already holds the value another thread has stored since
C3_Witness ==
    \E t \in Threads, u \in Threads :
        /\ t # u
        /\ Len(stack[t]) = 1
        /\ Len(stack[u]) = 1
        /\ Frame(t, 1).status = "running"
        /\ Frame(t, 1).arg = Frame(t, 1).stored
        /\ Frame(t, 1).stored # value_
        /\ Frame(u, 1).stored = value_

\* C4: the snapshot a write takes holds no observer whose release had
\* completed before, and a dispatch invokes only observers of its snapshot:
\* a write that starts after a release does not invoke the released observer.
C4_NoCallAfterRelease ==
    [][\A t \in Threads :
          /\ Pushed(t) => TopNext(t).pending \cap released = {}
          /\ Invoked(t) => /\ TopNext(t).cur \in Top(t).pending
                           /\ TopNext(t).cur \in Top(t).reg]_vars

\* an observer runs for a write stored after the release of an observer
\* that was registered before it
C4_Witness ==
    \E t \in Threads :
        /\ stack[t] # <<>>
        /\ Top(t).status = "running"
        /\ released # {}
        /\ Top(t).reg \cap released = {}
        /\ \A r \in released : r < Top(t).cur

\* the observers that live Subscription objects answer for
Held == {subs[h].obs : h \in {g \in Holders : subs[g].live /\ subs[g].obs # NoId}}

\* C5: while the cell exists, its registry holds exactly the observers of
\* the handles created and not yet released, each under one handle, and a
\* handle refers to the cell exactly while it answers for an observer,
\* under that observer's id.
C5_RegistryIsHandles ==
    alive =>
       /\ listeners_ = Held
       /\ \A g \in Holders, h \in Holders :
             g # h /\ subs[g].live /\ subs[h].live /\ subs[g].obs # NoId
                => subs[g].obs # subs[h].obs
       /\ \A h \in Holders :
             subs[h].live =>
                IF subs[h].owner THEN subs[h].id = subs[h].obs /\ subs[h].obs # NoId
                ELSE subs[h].obs = NoId

\* after a subscribe, a release and a move, one handle is moved-from and the
\* other answers for the only registered observer
C5_Witness ==
    /\ alive
    /\ released # {}
    /\ \E a \in Holders, b \in Holders :
          /\ subs[a].live /\ subs[a].moved
          /\ subs[b].live /\ subs[b].obs # NoId
          /\ listeners_ = {subs[b].obs}

\* C6: once an observer has failed, its dispatch goes on: neither the
\* failure nor its handling ends the dispatch, drops a pending observer or
\* raises an exception out of set/update.
C6_Isolation ==
    [][\A t \in Threads :
          ObserverThrow(t) \/ SinkReturn(t) \/ SinkThrow(t)
          => /\ Len(stack'[t]) = Len(stack[t])
             /\ TopNext(t).pending = Top(t).pending
             /\ ~exc'[t]]_vars

\* C6, as far as the code goes: the same, while the error sink returns.
C6_IsolationUnlessSinkThrows ==
    [][\A t \in Threads :
          ObserverThrow(t) \/ SinkReturn(t)
          => /\ Len(stack'[t]) = Len(stack[t])
             /\ TopNext(t).pending = Top(t).pending
             /\ ~exc'[t]]_vars

\* the step calls the error sink in one of thread t's dispatches
SinkEntered(t) ==
    \E i \in 1..Len(stack[t]) :
        /\ i <= Len(stack'[t])
        /\ stack[t][i].status # "sink"
        /\ stack'[t][i].status = "sink"

\* C7: with a sink configured, the failure of an observer calls the sink
\* once, for that observer; with none, the failure is swallowed and the
\* dispatch goes on; the sink is called at no other step.
C7_SinkPerFailure ==
    [][\A t \in Threads :
          /\ ObserverThrow(t) /\ on_error_
                => /\ Len(stack'[t]) = Len(stack[t])
                   /\ TopNext(t).status = "sink"
                   /\ TopNext(t).cur = Top(t).cur
          /\ ObserverThrow(t) /\ ~on_error_
                => /\ Len(stack'[t]) = Len(stack[t])
                   /\ TopNext(t).status = "iter"
                   /\ ~exc'[t]
          /\ SinkEntered(t) => ObserverThrow(t) /\ on_error_]_vars

\* the sink is running for the failure of the second of two observers of a
\* write
C7_Witness ==
    \E t \in Threads :
        /\ stack[t] # <<>>
        /\ on_error_
        /\ Top(t).status = "sink"
        /\ Cardinality(Top(t).reg) = 2
        /\ Top(t).pending = {}

\* C8: a move construction leaves the registry as it is, the target
\* answering for the source's observer and the source without owner;
\* releasing or destroying a moved-from handle takes no lock and leaves the
\* registry as it is (its id_ is 0, and observer 0 stays); the release of a
\* handle that answers for an observer removes exactly that observer.
C8_MovedFromInert ==
    [][\A t \in Threads :
          /\ \A h \in Holders, src \in Holders :
                MoveConstruct(t, h, src)
                => /\ listeners_' = listeners_
                   /\ subs'[h].obs = subs[src].obs
                   /\ subs'[h].owner = subs[src].owner
                   /\ subs'[h].id = subs[src].id
                   /\ ~subs'[src].owner
          /\ \A h \in Holders :
                subs[h].live /\ subs[h].moved /\ (UnsubscribeCall(t, h) \/ DtorCall(t, h))
                => /\ listeners_' = listeners_
                   /\ mutex_' = mutex_
                   /\ op' = op
          /\ UnsubscribeLocked(t) \/ DtorLocked(t)
                => /\ subs[op[t].h].obs \in listeners_
                   /\ listeners_' = listeners_ \ {subs[op[t].h].obs}]_vars

\* holder a is moved-from with id_ 0, holder b answers for observer 0, which
\* is registered, and unsubscribe() may be called on a
C8_Witness ==
    \E t \in Threads, a \in Holders, b \in Holders :
        /\ subs[a].live /\ subs[a].moved /\ subs[a].id = 0
        /\ subs[b].live /\ subs[b].obs = 0 /\ subs[b].id = 0
        /\ 0 \in listeners_
        /\ ENABLED UnsubscribeCall(t, a)

\* C9: a move assignment into a handle that answers for an observer removes
\* that observer, leaves the source's observer registered under the target
\* and the source without owner; destroying a moved-from handle takes no
\* lock and leaves the registry as it is.
C9_MoveAssign ==
    [][\A t \in Threads :
          /\ AssignLocked(t)
                => /\ subs[op[t].h].obs # NoId
                   /\ subs[op[t].h].obs \notin listeners_'
                   /\ subs'[op[t].h].obs = subs[op[t].src].obs
                   /\ subs[op[t].src].obs # NoId
                         => /\ subs[op[t].src].obs \in listeners_'
                            /\ subs'[op[t].h].owner
                            /\ subs'[op[t].h].id = subs[op[t].src].obs
                   /\ ~subs'[op[t].src].owner
          /\ \A h \in Holders :
                subs[h].live /\ subs[h].moved /\ DtorCall(t, h)
                => listeners_' = listeners_ /\ mutex_' = mutex_]_vars

\* an assignment holds the lock, target and source both answering for a
\* registered observer
C9_Witness ==
    \E t \in Threads :
        /\ mutex_ = t
        /\ op[t].kind = "assign"
        /\ subs[op[t].h].obs \in listeners_
        /\ subs[op[t].src].obs \in listeners_

\* C10: unsubscribe() on a handle that answers for no observer (and was not
\* moved from) changes nothing: no lock, no exception, the registry and the
\* handle as they were, the handle without owner; and an observer once
\* released is never registered again.
C10_ReleaseIdempotent ==
    [][/\ \A t \in Threads, h \in Holders :
             subs[h].live /\ subs[h].obs = NoId /\ ~subs[h].moved /\ UnsubscribeCall(t, h)
             => /\ listeners_' = listeners_
                /\ mutex_' = mutex_
                /\ op' = op
                /\ exc' = exc
                /\ subs' = subs
                /\ ~subs'[h].owner
       /\ \A id \in released : id \in released' /\ id \notin listeners_']_vars

\* a handle released by unsubscribe() (no owner, id_ 1) on which
\* unsubscribe() may be called again while observer 0 is registered
C10_Witness ==
    \E t \in Threads, h \in Holders :
        /\ subs[h].live /\ ~subs[h].owner /\ subs[h].id = 1 /\ ~subs[h].moved
        /\ 1 \in released
        /\ listeners_ = {0}
        /\ ENABLED UnsubscribeCall(t, h)

\* C11: the cell can be destroyed whatever handles exist, and they stay as
\* they are; once it is destroyed, unsubscribe(), the destructor and a move
\* assignment of a handle take no lock, raise nothing and leave the cell's
\* state as it is; and no observer is invoked and no dispatch is running.
C11_OrphanSafe ==
    [][/\ (alive /\ \A t \in Threads : op[t] = Idle /\ stack[t] = <<>> /\ ~exc[t])
             => ENABLED DestroyAtom
       /\ DestroyAtom => subs' = subs
       /\ \A t \in Threads, h \in Holders :
             ~alive /\ (\/ UnsubscribeCall(t, h)
                        \/ DtorCall(t, h)
                        \/ \E src \in Holders : AssignCall(t, h, src))
             => /\ atomVars' = atomVars
                /\ mutex_' = mutex_
                /\ op' = op
                /\ exc' = exc
       /\ ~alive => \A t \in Threads : ~Invoked(t) /\ stack[t] = <<>> /\ stack'[t] = <<>>]_vars

\* the cell is destroyed while a handle still refers to it and answers for
\* an observer, and the handle's destructor may run
C11_Witness ==
    \E t \in Threads, h \in Holders :
        /\ ~alive
        /\ subs[h].live /\ subs[h].owner /\ subs[h].obs # NoId
        /\ ENABLED DtorCall(t, h)

\* C12: get() returns the value of the last accepted write (the initial
\* value when there was none): no writer holds the lock while a reader
\* does, the value does not change while a reader holds the lock, and it
\* changes only when the holder of the exclusive lock stores the argument of
\* its set or the result of its updater, which is then the last write.
C12_ReadsStoredValue ==
    [][/\ \A t \in Threads :
             GetLocked(t) => /\ GetResult(t) = last
                             /\ mutex_ = 0
       /\ \A t \in Threads : op[t].kind = "get" => value_' = value_
       /\ value_' # value_
             => /\ last' = value_'
                /\ \E t \in Threads :
                      /\ mutex_ = t
                      /\ \/ SetLocked(t) /\ value_' = op[t].arg
                         \/ /\ UpdateLocked(t)
                            /\ op[t].fn = "inc"
                            /\ value_' = (value_ + 1) % (MaxVal + 1)
       /\ last' # last => value_' # value_]_vars

\* a reader holds the shared lock on a value a write has stored, while the
\* other thread is in the dispatch of its write
C12_Witness ==
    \E t \in Threads, u \in Threads :
        /\ t # u
        /\ op[t].kind = "get"
        /\ value_ # 0
        /\ stack[u] # <<>>
        /\ Top(u).stored = value_

\* thread t is in no member function and in no dispatch
Quiet(t) == op[t] = Idle /\ stack[t] = <<>>

\* C13: a thread holds the lock only inside the locked block of a member
\* function, never while it runs notify or an observer, so a thread that
\* may call into the cell does not hold the lock itself; and, with threads
\* that keep running and observers, updaters and sinks that come back, every
\* thread that is in a member function or in a dispatch gets out of both.
C13_NoDeadlock ==
    /\ [](\A t \in Threads : op[t] = Idle => mutex_ # t)
    /\ [](\A t \in Threads : CanCall(t) => mutex_ # t /\ t \notin Readers)
    /\ \A t \in Threads : ~Quiet(t) ~> Quiet(t)

\* an observer of thread t, itself called from inside an observer's set,
\* may call into the cell while the other thread holds the lock
C13_Witness ==
    \E t \in Threads, u \in Threads :
        /\ t # u
        /\ Len(stack[t]) = 2
        /\ Top(t).status = "running"
        /\ CanCall(t)
        /\ mutex_ = u

\* C14: update(f) stores f of the value the cell holds when f is applied:
\* v + 1 (within the model's range of values) for the incrementing updater,
\* v for the identity; while an update holds the lock no other thread
\* changes the value, and the value changes at no step but the locked block
\* of a set or an update, so the updates compose in the order of the lock.
C14_UpdateAtomic ==
    [][/\ \A t \in Threads :
             UpdateLocked(t) /\ op[t].fn = "inc"
             => /\ value_' = (value_ + 1) % (MaxVal + 1)
                /\ last' = value_'
       /\ \A t \in Threads :
             UpdateLocked(t) /\ op[t].fn = "same" => value_' = value_
       /\ \A t \in Threads :
             op[t].kind = "update" /\ value_' # value_ => UpdateLocked(t)
       /\ value_' # value_
             => \E t \in Threads : SetLocked(t) \/ UpdateLocked(t)]_vars

\* an incrementing update holds the lock while the other thread is still in
\* the dispatch of the write that stored the value it will read
C14_Witness ==
    \E t \in Threads, u \in Threads :
        /\ t # u
        /\ mutex_ = t
        /\ op[t].kind = "update"
        /\ op[t].fn = "inc"
        /\ stack[u] # <<>>
        /\ Top(u).stored = value_
        /\ value_ # 0

\* C15: when the updater throws, the locked block of update is left with
\* the value, the registry, the id counter and the handles as they were, no
\* dispatch is started and no observer invoked, the exception is on its way
\* to the caller of update, and the lock is free.
C15_UpdaterFails ==
    [][\A t \in Threads :
          UpdateLocked(t) /\ op[t].fn = "fail"
          => /\ atomVars' = atomVars
             /\ subs' = subs
             /\ stack' = stack
             /\ exc'[t]
             /\ op'[t] = Idle
             /\ mutex_' = 0]_vars

\* with no error sink, so that only an updater raises: the exception of a
\* failed update is on its way to the caller, observers are registered, an
\* earlier write has stored a value and the lock is free
C15_Witness ==
    \E t \in Threads :
        /\ ~on_error_
        /\ exc[t]
        /\ stack[t] = <<>>
        /\ listeners_ # {}
        /\ value_ # 0
        /\ CanLock

\* the step leaves the locked block of a write that stores nothing
Skipped(t) ==
    \/ SetLocked(t) /\ op[t].arg = value_
    \/ UpdateLocked(t) /\ op[t].fn = "same"

\* the first four parts of C16: subscribe starts no dispatch and its
\* observer is in no snapshot taken before; a skipped write starts no
\* dispatch; an accepted write takes the whole registry as its snapshot; a
\* dispatch invokes only what is pending in its snapshot.
FiresOnlyForLaterWrites ==
    /\ \A t \in Threads :
          SubscribeLocked(t)
          => /\ stack' = stack
             /\ NewId(next_id_) \in listeners_'
             /\ \A u \in Threads : \A i \in 1..Len(stack[u]) :
                   NewId(next_id_) \notin Frame(u, i).reg
    /\ \A t \in Threads : Skipped(t) => stack' = stack
    /\ \A t \in Threads :
          Pushed(t) => /\ TopNext(t).reg = listeners_
                       /\ TopNext(t).pending = listeners_
                       /\ \A id \in Ids : TopNext(t).cnt[id] = 0
    /\ \A t \in Threads : Invoked(t) => TopNext(t).cur \in Top(t).pending

\* C16: subscribe(cb) invokes nothing; cb is invoked by no write whose
\* snapshot was taken before and by no skipped write; the next accepted
\* write holds cb in its snapshot, and has invoked it when its dispatch ends.
C16_FirstFiresOnNextWrite ==
    [][/\ FiresOnlyForLaterWrites
       /\ \A t \in Threads :
             Popped(t) => \A id \in Top(t).reg : Top(t).cnt[id] >= 1]_vars

\* C16, as far as the code goes: the same, for every dispatch that does not
\* end by the error sink throwing.
C16_FirstFiresUnlessSinkThrows ==
    [][/\ FiresOnlyForLaterWrites
       /\ \A t \in Threads :
             Popped(t) /\ ~SinkThrow(t)
             => \A id \in Top(t).reg : Top(t).cnt[id] >= 1]_vars

\* C17: a thread never invokes an observer with the value of a later write
\* of its own while that observer, registered for an earlier write of the
\* thread that is still dispatching, has not yet been invoked with the
\* earlier write's value.
C17_SameWriterOrder ==
    [][\A t \in Threads :
          Invoked(t)
          => \A i \in 1..(Len(stack[t]) - 1) :
                TopNext(t).cur \in Frame(t, i).reg
                => TopNext(t).cur \notin Frame(t, i).pending]_vars

\* the step invokes observer id in thread t's innermost dispatch, after the
\* release of id has completed
StaleInvoked(t, id) ==
    /\ Invoked(t)
    /\ TopNext(t).cur = id
    /\ id \in released

\* C18, as stated: an invocation that follows the completed release is the
\* only one: once it has happened, no write in flight still holds the
\* observer in its snapshot, to be invoked once more.
C18_StaleAtMostOnce ==
    [][\A t \in Threads, id \in Ids :
          StaleInvoked(t, id)
          => \A u \in Threads : \A i \in 1..Len(stack'[u]) :
                id \notin stack'[u][i].pending]_vars

\* C18, amended: after its release has completed, an observer is invoked at
\* most once by each write whose snapshot was taken before (a dispatch
\* invokes an entry of its snapshot once, and a snapshot never grows), and
\* not at all by a write that takes its snapshot afterwards.
C18_StaleOncePerWrite ==
    [][\A t \in Threads :
          /\ Invoked(t) => /\ TopNext(t).cur \in Top(t).pending
                           /\ TopNext(t).cur \notin TopNext(t).pending
                           /\ TopNext(t).cnt[TopNext(t).cur] = 1
          /\ \A i \in 1..Len(stack[t]) :
                i <= Len(stack'[t]) => stack'[t][i].pending \subseteq Frame(t, i).pending
          /\ Pushed(t) => TopNext(t).pending \cap released = {}]_vars

\* the release of an observer has completed while both threads are in the
\* dispatch of a write that still holds it in its snapshot
C18_Witness ==
    \E id \in released :
        \A t \in Threads :
            /\ stack[t] # <<>>
            /\ Top(t).status = "iter"
            /\ id \in Top(t).pending

\* the first part of C19: an observer registered while writes are in flight
\* is in none of their snapshots, a snapshot is never extended, a dispatch
\* invokes only observers of its snapshot, and the next accepted write takes
\* the registry, the new observer included, as its snapshot.
NotInFlightThenSnapshotted ==
    /\ \A t \in Threads :
          SubscribeLocked(t)
          => \A u \in Threads : \A i \in 1..Len(stack'[u]) :
                /\ NewId(next_id_) \notin stack'[u][i].reg
                /\ NewId(next_id_) \notin stack'[u][i].pending
    /\ \A u \in Threads : \A i \in 1..Len(stack[u]) :
          i <= Len(stack'[u])
          => /\ stack'[u][i].reg = Frame(u, i).reg
             /\ stack'[u][i].pending \subseteq Frame(u, i).reg
    /\ \A u \in Threads : Invoked(u) => TopNext(u).cur \in Top(u).reg
    /\ \A t \in Threads :
          Pushed(t) => \A h \in Holders :
                          subs[h].live /\ subs[h].obs # NoId
                          => subs[h].obs \in TopNext(t).pending

\* C19: an observer registered after a write has taken its snapshot is not
\* invoked for that write; the next accepted write holds it in its snapshot
\* and has invoked it when its dispatch ends.
C19_LateSubscriber ==
    [][/\ NotInFlightThenSnapshotted
       /\ \A t \in Threads :
             Popped(t) => \A id \in Top(t).reg : Top(t).cnt[id] = 1]_vars

\* C19, as far as the code goes: the same, for every dispatch that does not
\* end by the error sink throwing.
C19_LateSubscriberUnlessSinkThrows ==
    [][/\ NotInFlightThenSnapshotted
       /\ \A t \in Threads :
             Popped(t) /\ ~SinkThrow(t)
             => \A id \in Top(t).reg : Top(t).cnt[id] = 1]_vars

\* C20: when the error sink throws, notify is left at once: the dispatch
\* ends with its remaining observers not invoked, the exception is on its
\* way to the caller of set/update, the outer dispatches of the thread are
\* as they were, no lock is held by the thread, and the value, the registry
\* and the handles stay as they are.
C20_SinkFailurePropagates ==
    [][\A t \in Threads :
          SinkThrow(t)
          => /\ Len(stack'[t]) = Len(stack[t]) - 1
             /\ \A i \in 1..Len(stack'[t]) : stack'[t][i] = Frame(t, i)
             /\ exc'[t]
             /\ mutex_ # t
             /\ mutex_' = mutex_
             /\ value_' = value_
             /\ last' = last
             /\ listeners_' = listeners_
             /\ subs' = subs]_vars

\* the sink is running for the failure of the first of two observers of a
\* write whose value the cell still holds, the second not yet invoked
C20_Witness ==
    \E t \in Threads :
        /\ stack[t] # <<>>
        /\ Top(t).status = "sink"
        /\ Top(t).pending # {}
        /\ Top(t).stored = value_
        /\ value_ # 0
        /\ ENABLED SinkThrow(t)
====
